---- MODULE Spec2Model ----
(***************************************************************************)
(* Bit-banged SPI master (package spi of ziutek/bitbang).                   *)
(*                                                                         *)
(* The model follows the revision of Master that has the dr flag, the      *)
(* discard/readBits reader and the werr checks in every writer operation.  *)
(* A writer enqueues directives on the coordinator channel tord and hands  *)
(* line words to a synchronous driver; a concurrent reader pops the        *)
(* directives and reads the line words back.                               *)
(*                                                                         *)
(* Every driver call and every channel operation is one step, so that the  *)
(* writers and the reader interleave exactly at the points where the Go    *)
(* code can block or synchronise.  The state keeps what is in flight (the  *)
(* queued directives, the line words not read yet), so the writers and the *)
(* reader may go on for any number of calls and transactions.              *)
(***************************************************************************)
EXTENDS Integers, Sequences, FiniteSets, TLC

(***************************************************************************)
(* Bounds of the model.                                                    *)
(***************************************************************************)
\* capacity of tord in Spec (NewMaster makes it 4096/16; Spec scales it
\* down so that a full coordinator is reached)
TordCap == 1
\* SpecSeq, SpecMisuse: transactions begun in one behaviour
MaxTx == 2
\* SpecSeq, SpecMisuse: calls other than Begin and End in one behaviour
MaxCalls == 3
\* SpecSeq, SpecMisuse: capacity of tord (no reader runs there, so tord has
\* to hold the directives of the whole behaviour)
SeqCap == 10
\* SpecMisuse: calls of SetPrePost, SetBase and Configure in one behaviour
MaxSet == 1

(***************************************************************************)
(* Bit operations on bytes.                                                *)
(***************************************************************************)

RECURSIVE BitAnd(_, _)
BitAnd(a, b) ==
    IF a = 0 \/ b = 0 THEN 0
    ELSE (IF a % 2 = 1 /\ b % 2 = 1 THEN 1 ELSE 0) + 2 * BitAnd(a \div 2, b \div 2)

RECURSIVE BitOr(_, _)
BitOr(a, b) ==
    IF a = 0 THEN b
    ELSE IF b = 0 THEN a
    ELSE (IF a % 2 = 1 \/ b % 2 = 1 THEN 1 ELSE 0) + 2 * BitOr(a \div 2, b \div 2)

RECURSIVE BitXor(_, _)
BitXor(a, b) ==
    IF a = 0 THEN b
    ELSE IF b = 0 THEN a
    ELSE (IF a % 2 # b % 2 THEN 1 ELSE 0) + 2 * BitXor(a \div 2, b \div 2)

(***************************************************************************)
(* Mode flags.                                                             *)
(***************************************************************************)
MSBF == 0
LSBF == 1
CPOL0 == 0
CPOL1 == 2
CPHA0 == 0
CPHA1 == 4

(***************************************************************************)
(* Errors.                                                                 *)
(***************************************************************************)
Nil == "nil"
EWrite == "drv.Write failed"
EFlush == "drv.Flush failed"
ERead == "drv.Read failed"
EOF == "EOF"
ErrUnexpectedEOF == "unexpected EOF"

(***************************************************************************)
(* Inputs of the setters and of the calls.                                 *)
(***************************************************************************)
\* line masks handed to NewMaster; miso = mosi, the driver loops MOSI back
MaskSet == {[sclk |-> 1, mosi |-> 16, miso |-> 16]}
\* arguments of Write
DataSet == {<<>>, <<85, 15>>}
\* arguments of WriteString
StrSet == {<<15>>}
\* arguments of WriteN
WriteNSet == {[b |-> 85, n |-> 2]}
\* arguments of Read (the length of the buffer) and of ReadN
ReadLens == {0, 2}
ReadNLens == {0, 1}
\* arguments of SetPrePost, SetBase and Configure in SpecMisuse
PrePostSet == {[pre |-> <<128>>, post |-> <<>>], [pre |-> [j \in 1..17 |-> 128], post |-> <<>>],
               [pre |-> [j \in 1..16 |-> 128], post |-> [j \in 1..16 |-> 64]]}
BaseSet == {32}
ConfigSet == {[Mode |-> 4, FrameLen |-> 2, Delay |-> 1], [Mode |-> 0, FrameLen |-> 0, Delay |-> 0],
              [Mode |-> 1, FrameLen |-> 1, Delay |-> 9], [Mode |-> 4, FrameLen |-> 1, Delay |-> 8]}
Writers == {"w1", "w2"}

VARIABLES
    ma,     \* the fields of Master
    ch,     \* the channel made by NewMaster
    drv,    \* the synchronous driver: the line words written and not read yet
    wr,     \* the writer goroutines: position in the current call, its locals
    rd,     \* the reader goroutine
    cnt,    \* what the callers may still do (when limited)
    obs,    \* what a test records of the current transaction (when on)
    crash   \* "" while the program runs, else the panic or fatal error

vars == <<ma, ch, drv, wr, rd, cnt, obs, crash>>

(***************************************************************************)
(* Channel of int8 with a capacity.                                        *)
(***************************************************************************)
\* make(chan int8, cap)
MakeChan(cap) == [q |-> <<>>, closed |-> FALSE, cap |-> cap]
ChanLen(c) == Len(c.q)
ChanFull(c) == ChanLen(c) = c.cap

(***************************************************************************)
(* The driver.  wire is every line word accepted by Write and not read     *)
(* yet, in order; flushed counts the words of wire that went out (and so   *)
(* can be read back); a buffered driver sends words out on Flush only.     *)
(***************************************************************************)
MakeDriver(buffered, rfails) ==
    [wire |-> <<>>, flushed |-> 0, buffered |-> buffered, rfails |-> rfails]

\* a line word with what the writer wrote it as: the kind of word and, for
\* a word of a data window, its place in the window and the data byte
Word(v, kind, pos, b) == [v |-> v, kind |-> kind, pos |-> pos, b |-> b]

Values(words) == [j \in 1..Len(words) |-> words[j].v]

(***************************************************************************)
(* NewMaster: the state after construction.                                *)
(***************************************************************************)
NewMaster(sclk, mosi, miso) ==
    [tord |-> "chan", dr |-> FALSE, werr |-> Nil, wmtx |-> FALSE, fn |-> 0,
     pre |-> <<>>, post |-> <<>>, sclk |-> sclk, mosi |-> mosi, miso |-> miso,
     base |-> 0, cidle |-> 0, cfirst |-> 0, cpha1 |-> FALSE, lsbf |-> FALSE,
     flen |-> 0, dlyn |-> 0]

\* the writer between calls: k and err are what its last call returned (the
\* count of a write operation, 0 for the others), req the length that call
\* was asked to write (set once the call is past its checks)
WriterInit ==
    [pc |-> "idle", op |-> "", data |-> <<>>, k |-> 0, req |-> 0, i |-> 0, n |-> 0,
     rpc |-> "", err |-> Nil, tx |-> "none", lat |-> Nil]

\* the reader between calls: m and err are what its last call returned, n the
\* length that call was asked to read
ReaderInit ==
    [pc |-> "idle", op |-> "", n |-> 0, m |-> 0, ign |-> FALSE, need |-> 0,
     bits |-> <<>>, out |-> <<>>, err |-> Nil]

\* the record of a transaction before Begin
ObsInit(on) ==
    [on |-> on, asked |-> <<>>, words |-> <<>>, data |-> <<>>, nodelay |-> FALSE,
     nd |-> {}, done |-> FALSE]

(***************************************************************************)
(* The callers' budgets.                                                   *)
(***************************************************************************)
NoLimit == [limited |-> FALSE, tx |-> 0, calls |-> 0, set |-> 0]
Limit(tx, calls, set) == [limited |-> TRUE, tx |-> tx, calls |-> calls, set |-> set]
Affords(f) == ~cnt.limited \/ cnt[f] > 0
Spend(f) == IF cnt.limited THEN [cnt EXCEPT ![f] = @ - 1] ELSE cnt

(***************************************************************************)
(* SetPrePost, SetBase, Configure.                                         *)
(***************************************************************************)
\* the checks of SetPrePost with the test len(pre) > 17
SetPrePostPanicAtSeventeen(pre, post) ==
    IF Len(pre) > 17 THEN "panic: len(pre)>16"
    ELSE IF Len(post) > 16 THEN "panic: len(post)>16"
    ELSE ""

SetPrePostPanic(pre, post) ==
    IF Len(pre) > 16 THEN "panic: len(pre)>16"
    ELSE IF Len(post) > 16 THEN "panic: len(post)>16"
    ELSE ""

SetPrePostOf(m, pre, post) ==
    IF SetPrePostPanic(pre, post) # "" THEN m ELSE [m EXCEPT !.pre = pre, !.post = post]

SetBaseOf(m, base) == [m EXCEPT !.base = base]

\* the fields Configure derives from the mode
ModeFields(m, mode) ==
    LET cpha1 == (mode \div 4) % 2 = 1
        cpol1 == (mode \div 2) % 2 = 1
    IN  [m EXCEPT !.cpha1 = cpha1,
                  !.cidle = IF cpol1 THEN m.sclk ELSE 0,
                  !.cfirst = IF cpol1 THEN (IF cpha1 THEN 0 ELSE m.sclk)
                                      ELSE (IF cpha1 THEN m.sclk ELSE 0),
                  !.lsbf = (mode % 2 = 1)]

\* the checks of Configure with the test cfg.Delay >= 8
ConfigurePanicAtEight(cfg) ==
    IF cfg.Delay < 0 \/ cfg.Delay >= 8 THEN "panic: Delay<0 || cfg.Delay>8"
    ELSE IF cfg.FrameLen <= 0 THEN "panic: FrameLen <= 0"
    ELSE ""

ConfigurePanic(cfg) ==
    IF cfg.Delay < 0 \/ cfg.Delay > 8 THEN "panic: Delay<0 || cfg.Delay>8"
    ELSE IF cfg.FrameLen <= 0 THEN "panic: FrameLen <= 0"
    ELSE ""

ConfigureOf(m, cfg) ==
    IF ConfigurePanic(cfg) # "" THEN ModeFields(m, cfg.Mode)
    ELSE [ModeFields(m, cfg.Mode) EXCEPT !.flen = -cfg.FrameLen, !.dlyn = cfg.Delay]

\* the setters are called by the one caller that sets the Master up, between
\* transactions
SetterOK ==
    /\ crash = ""
    /\ \A w \in Writers : wr[w].pc = "idle" /\ wr[w].tx # "open"
    /\ Affords("set")

SetPrePost(pre, post) ==
    /\ SetterOK
    /\ IF SetPrePostPanic(pre, post) # ""
       THEN crash' = SetPrePostPanic(pre, post) /\ UNCHANGED ma
       ELSE ma' = SetPrePostOf(ma, pre, post) /\ UNCHANGED crash
    /\ cnt' = Spend("set")
    /\ UNCHANGED <<ch, drv, wr, rd, obs>>

SetBase(base) ==
    /\ SetterOK
    /\ ma' = SetBaseOf(ma, base)
    /\ cnt' = Spend("set")
    /\ UNCHANGED <<ch, drv, wr, rd, obs, crash>>

Configure(cfg) ==
    /\ SetterOK
    /\ ma' = ConfigureOf(ma, cfg)
    /\ crash' = ConfigurePanic(cfg)
    /\ cnt' = Spend("set")
    /\ UNCHANGED <<ch, drv, wr, rd, obs>>

(***************************************************************************)
(* Initial states: a Master made by NewMaster and set up by SetPrePost,    *)
(* SetBase and Configure, its channel, a driver and the callers' budgets.  *)
(***************************************************************************)
Masters == {NewMaster(k.sclk, k.mosi, k.miso) : k \in {k \in MaskSet : BitAnd(k.sclk, k.mosi) = 0}}

Config(mode, flen, dly) == [Mode |-> mode, FrameLen |-> flen, Delay |-> dly]
SetUp(pre, post, base, cfg) == [pre |-> pre, post |-> post, base |-> base, cfg |-> cfg]

SetUpOf(m, su) == ConfigureOf(SetBaseOf(SetPrePostOf(m, su.pre, su.post), su.base), su.cfg)

\* the set-ups of Spec
SetUps ==
    {SetUp(<<128>>, <<128, 64>>, 32, Config(MSBF + CPOL0 + CPHA0, 1, 1)),
     SetUp(<<>>, <<>>, 0, Config(LSBF + CPOL1 + CPHA1, 2, 0))}

InitWith(masters, cap, drivers, budget, rec) ==
    /\ ma \in masters
    /\ ch = MakeChan(cap)
    /\ drv \in drivers
    /\ wr = [w \in Writers |-> WriterInit]
    /\ rd = ReaderInit
    /\ cnt = budget
    /\ obs = ObsInit(rec)
    /\ crash = ""

Init ==
    InitWith({SetUpOf(m, su) : m \in Masters, su \in SetUps}, TordCap,
             {MakeDriver(b, 0) : b \in BOOLEAN}, NoLimit, FALSE)

(***************************************************************************)
(* tobits: the 16 line words of one data byte; tobyte: the data byte of    *)
(* 16 line words.                                                          *)
(***************************************************************************)
\* the mask test of the i-th bit cell (i = 0..7): u is shifted i times, so
\* the cell carries bit i of b when lsbf and bit 7-i otherwise
CellBit(m, b, i) ==
    IF m.lsbf THEN (b \div (2 ^ i)) % 2 = 1
              ELSE (((b * (2 ^ i)) % 256) \div 128) % 2 = 1

\* tobits with bits[i+1] = bit
tobitsNoToggle(m, b) ==
    [j \in 1..16 |->
        LET i == (j - 1) \div 2
        IN  BitOr(BitOr(m.base, m.cfirst), IF CellBit(m, b, i) THEN m.mosi ELSE 0)]

tobits(m, b) ==
    [j \in 1..16 |->
        LET i == (j - 1) \div 2
            bit == BitOr(BitOr(m.base, m.cfirst), IF CellBit(m, b, i) THEN m.mosi ELSE 0)
        IN  IF j % 2 = 1 THEN bit ELSE BitXor(bit, m.sclk)]

RECURSIVE tobyteLoop(_, _, _, _)
tobyteLoop(m, bits, i, u) ==
    IF i > 16 THEN u % 256
    ELSE LET hit == BitAnd(bits[i], m.miso) # 0
         IN  IF m.lsbf
             THEN tobyteLoop(m, bits, i + 2, BitOr(u \div 2, IF hit THEN 128 ELSE 0))
             ELSE tobyteLoop(m, bits, i + 2, BitOr(u * 2, IF hit THEN 1 ELSE 0))

\* tobyte with the loop from i := 3
tobyteFromSecondCell(m, bits) == tobyteLoop(m, bits, 4, 0)

tobyte(m, bits) == tobyteLoop(m, bits, 2, 0)

(***************************************************************************)
(* Pieces shared by the writer operations.                                 *)
(***************************************************************************)
Running == crash = ""

\* a call returns (s.k, err) to its caller, who is then free to make the
\* next call: a Begin that returned nil opened a transaction, a Begin or End
\* that returned an error failed, an End that returned nil closed it
Return(s, err) ==
    [WriterInit EXCEPT !.tx = IF s.op \in {"Begin", "End"}
                              THEN (IF err # Nil THEN "failed"
                                    ELSE IF s.op = "Begin" THEN "open" ELSE "none")
                              ELSE s.tx,
                       !.k = s.k, !.req = s.req, !.err = err]

\* a writer-side API call is issued by a caller whose transaction is in txs
CallOK(w, txs) ==
    /\ Running
    /\ wr[w].pc = "idle"
    /\ wr[w].tx \in txs

\* the writer at the start of the call of op
Enter(s, op) == [s EXCEPT !.op = op, !.k = 0, !.req = 0, !.err = Nil, !.lat = ma.werr]

\* if ma.werr != nil { ma.wmtx.Unlock(); return ma.werr } without the Unlock
LatchedReturnLocked(w, op) ==
    /\ ma.werr # Nil
    /\ wr' = [wr EXCEPT ![w] = Return(Enter(@, op), ma.werr)]
    /\ UNCHANGED <<ma, crash>>

\* if ma.werr != nil { ma.wmtx.Unlock(); return ma.werr }
\* Unlock of a mutex that is not locked is a fatal error of the runtime.
LatchedReturn(w, op) ==
    /\ ma.werr # Nil
    /\ IF ma.wmtx
       THEN /\ ma' = [ma EXCEPT !.wmtx = FALSE]
            /\ wr' = [wr EXCEPT ![w] = Return(Enter(@, op), ma.werr)]
            /\ UNCHANGED crash
       ELSE /\ crash' = "fatal error: sync: unlock of unlocked mutex"
            /\ wr' = [wr EXCEPT ![w] = [Enter(@, op) EXCEPT !.pc = "dead"]]
            /\ UNCHANGED ma

\* the call of toread(n), to continue at rpc
CallToread(s, n, rpc) == [s EXCEPT !.pc = "toread", !.n = n, !.rpc = rpc]

(***************************************************************************)
(* werror: latch the error, close the coordinator, forget it, unlock.      *)
(***************************************************************************)
werror(w, err) ==
    IF ma.tord = "nil"
    THEN /\ crash' = "panic: close of nil channel"
         /\ ma' = [ma EXCEPT !.werr = err]
         /\ wr' = [wr EXCEPT ![w].pc = "dead"]
         /\ UNCHANGED ch
    ELSE /\ ch' = [ch EXCEPT !.closed = TRUE]
         /\ IF ma.wmtx
            THEN /\ ma' = [ma EXCEPT !.werr = err, !.tord = "nil", !.wmtx = FALSE]
                 /\ wr' = [wr EXCEPT ![w] = Return(@, err)]
                 /\ UNCHANGED crash
            ELSE /\ ma' = [ma EXCEPT !.werr = err, !.tord = "nil"]
                 /\ wr' = [wr EXCEPT ![w].pc = "dead"]
                 /\ crash' = "fatal error: sync: unlock of unlocked mutex"

(***************************************************************************)
(* toread: flush the driver when the coordinator is full, then send.       *)
(***************************************************************************)
\* toread without the flush of the driver
toreadNoFlush(w) ==
    /\ Running
    /\ wr[w].pc = "toread"
    /\ ChanFull(ch)
    /\ wr' = [wr EXCEPT ![w].pc = "send"]
    /\ UNCHANGED <<ma, ch, drv, rd, cnt, obs, crash>>

\* len(ma.tord) == cap(ma.tord): ma.drv.Flush()
toreadFlush(w) ==
    /\ Running
    /\ wr[w].pc = "toread"
    /\ ChanFull(ch)
    /\ \/ /\ drv' = [drv EXCEPT !.flushed = Len(drv.wire)]
          /\ wr' = [wr EXCEPT ![w].pc = "send"]
       \/ /\ wr' = [wr EXCEPT ![w].pc = wr[w].rpc, ![w].err = EFlush]
          /\ UNCHANGED drv
    /\ UNCHANGED <<ma, ch, rd, cnt, obs, crash>>

\* the range check and ma.tord <- int8(n)
toreadSend(w) ==
    /\ Running
    /\ \/ wr[w].pc = "toread" /\ ~ChanFull(ch)
       \/ wr[w].pc = "send"
    /\ IF wr[w].n > 127 \/ wr[w].n < -128
       THEN /\ crash' = "panic: n>127 || n<-128"
            /\ wr' = [wr EXCEPT ![w].pc = "dead"]
            /\ UNCHANGED ch
       ELSE /\ ma.tord # "nil"          \* a send on a nil channel blocks forever
            /\ IF ch.closed
               THEN /\ crash' = "panic: send on closed channel"
                    /\ wr' = [wr EXCEPT ![w].pc = "dead"]
                    /\ UNCHANGED ch
               ELSE /\ ~ChanFull(ch)    \* a send on a full channel blocks
                    /\ ch' = [ch EXCEPT !.q = Append(@, wr[w].n)]
                    /\ wr' = [wr EXCEPT ![w].pc = wr[w].rpc]
                    /\ UNCHANGED crash
    /\ UNCHANGED <<ma, drv, rd, cnt, obs>>

(***************************************************************************)
(* ma.drv.Write(words) by writer w.  The driver either takes all the words *)
(* or fails after taking none of them or the first one.  A buffered driver *)
(* sends the words out on Flush, an unbuffered one at once.                *)
(***************************************************************************)
Taken(words) == {0} \cup (IF Len(words) > 1 THEN {1} ELSE {})

\* the record with words handed to the driver and data bytes written
Observe(words, data) ==
    IF obs.on THEN [obs EXCEPT !.words = @ \o words, !.data = @ \o data] ELSE obs

drvWrite(w, words, oknext, failnext, okma, data) ==
    \/ /\ drv' = [drv EXCEPT !.wire = @ \o words,
                             !.flushed = IF drv.buffered THEN @ ELSE Len(drv.wire) + Len(words)]
       /\ wr' = [wr EXCEPT ![w] = oknext]
       /\ ma' = okma
       /\ obs' = Observe(words, data)
    \/ /\ \E j \in Taken(words) :
             /\ drv' = [drv EXCEPT !.wire = @ \o SubSeq(words, 1, j),
                                   !.flushed = IF drv.buffered THEN @ ELSE Len(drv.wire) + j]
             /\ obs' = Observe(SubSeq(words, 1, j), <<>>)
       /\ wr' = [wr EXCEPT ![w] = [failnext EXCEPT !.err = EWrite]]
       /\ UNCHANGED ma

\* ma.drv.Flush() by writer w, to continue at next
drvFlush(w, next) ==
    \/ /\ drv' = [drv EXCEPT !.flushed = Len(drv.wire)]
       /\ wr' = [wr EXCEPT ![w] = next]
    \/ /\ wr' = [wr EXCEPT ![w] = [next EXCEPT !.err = EFlush]]
       /\ UNCHANGED drv

\* the line words of an overhead sequence
Tagged(bytes, kind) == [j \in 1..Len(bytes) |-> Word(bytes[j], kind, 0, 0)]
IdleWord(m) == BitOr(m.base, m.cidle)

(***************************************************************************)
(* Begin.                                                                  *)
(***************************************************************************)
\* Begin without ma.wmtx.Lock()
BeginNoLock(w) ==
    /\ CallOK(w, {"none", "failed"})
    /\ Affords("tx")
    /\ ma' = [ma EXCEPT !.wmtx = TRUE]
    /\ wr' = [wr EXCEPT ![w] = [Enter(@, "Begin") EXCEPT !.pc = "Begin.chk"]]
    /\ cnt' = Spend("tx")
    /\ UNCHANGED <<ch, drv, rd, obs, crash>>

\* ma.wmtx.Lock()
BeginLock(w) ==
    /\ CallOK(w, {"none", "failed"})
    /\ Affords("tx")
    /\ ~ma.wmtx
    /\ ma' = [ma EXCEPT !.wmtx = TRUE]
    /\ wr' = [wr EXCEPT ![w] = [Enter(@, "Begin") EXCEPT !.pc = "Begin.chk"]]
    /\ cnt' = Spend("tx")
    /\ UNCHANGED <<ch, drv, rd, obs, crash>>

\* BeginCheck with the directive -len(ma.pre)
BeginCheckNoIdle(w) ==
    /\ Running
    /\ wr[w].pc = "Begin.chk"
    /\ \/ /\ LatchedReturn(w, "Begin")
          /\ UNCHANGED obs
       \/ /\ ma.werr = Nil
          /\ ma' = [ma EXCEPT !.flen = -ma.flen, !.fn = 0]
          /\ wr' = [wr EXCEPT ![w] = CallToread(@, -Len(ma.pre), "Begin.pre")]
          /\ obs' = ObsInit(obs.on)
          /\ UNCHANGED crash
    /\ UNCHANGED <<ch, drv, rd, cnt>>

\* the werr check, then flen, fn and the overhead directive
BeginCheck(w) ==
    /\ Running
    /\ wr[w].pc = "Begin.chk"
    /\ \/ /\ LatchedReturn(w, "Begin")
          /\ UNCHANGED obs
       \/ /\ ma.werr = Nil
          /\ ma' = [ma EXCEPT !.flen = -ma.flen, !.fn = 0]
          /\ wr' = [wr EXCEPT ![w] =
                      CallToread(@, -(Len(ma.pre) + (IF ma.cpha1 THEN 1 ELSE 0)), "Begin.pre")]
          /\ obs' = ObsInit(obs.on)
          /\ UNCHANGED crash
    /\ UNCHANGED <<ch, drv, rd, cnt>>

\* if len(ma.pre) > 0 && err == nil: ma.drv.Write(ma.pre)
BeginPre(w) ==
    /\ Running
    /\ wr[w].pc = "Begin.pre"
    /\ LET next == [wr[w] EXCEPT !.pc = "Begin.idle"]
       IN  IF Len(ma.pre) > 0 /\ wr[w].err = Nil
           THEN drvWrite(w, Tagged(ma.pre, "pre"), next, next, ma, <<>>)
           ELSE wr' = [wr EXCEPT ![w] = next] /\ UNCHANGED <<ma, drv, obs>>
    /\ UNCHANGED <<ch, rd, cnt, crash>>

\* if ma.cpha1 && err == nil: ma.drv.Write([]byte{ma.base | ma.cidle})
BeginIdle(w) ==
    /\ Running
    /\ wr[w].pc = "Begin.idle"
    /\ LET next == [wr[w] EXCEPT !.pc = "Begin.ret"]
       IN  IF ma.cpha1 /\ wr[w].err = Nil
           THEN drvWrite(w, Tagged(<<IdleWord(ma)>>, "idle"), next, next, ma, <<>>)
           ELSE wr' = [wr EXCEPT ![w] = next] /\ UNCHANGED <<ma, drv, obs>>
    /\ UNCHANGED <<ch, rd, cnt, crash>>

\* if err != nil { ma.werror(err); return err }; return nil
BeginRet(w) ==
    /\ Running
    /\ wr[w].pc = "Begin.ret"
    /\ IF wr[w].err # Nil
       THEN werror(w, wr[w].err)
       ELSE /\ wr' = [wr EXCEPT ![w] = Return(@, Nil)]
            /\ UNCHANGED <<ma, ch, crash>>
    /\ UNCHANGED <<drv, rd, cnt, obs>>

(***************************************************************************)
(* Write, WriteString, WriteN: per data byte tobits and writeBits.         *)
(***************************************************************************)
\* writeBits: a frame is full and a delay follows it, checked as fn+1 == flen
FrameFullEarly(m) == m.dlyn > 0 /\ m.fn + 1 = m.flen

\* writeBits: ma.dlyn > 0 and ma.fn == ma.flen
FrameFull(m) == m.dlyn > 0 /\ m.fn = m.flen

\* writeBits: the directive of a delay block without len(ibuf)
DelayDirectiveShort(m) == -m.dlyn

\* writeBits: -ma.dlyn * len(ibuf)
DelayDirective(m) == -m.dlyn * 2

\* writeBits: ibuf of one idle word
DelayBlockShort(m) == Tagged(<<IdleWord(m)>>, "dly")

\* writeBits: ibuf := []byte{idle, idle}
DelayBlock(m) == Tagged(<<IdleWord(m), IdleWord(m)>>, "dly")

\* NextByte that counts the byte in fn whatever Delay is
NextByteAlwaysCounts(s, m) ==
    IF s.data = <<>>
    THEN [s |-> Return(s, Nil), m |-> m]
    ELSE IF FrameFull(m)
    THEN [s |-> CallToread([s EXCEPT !.i = 0], DelayDirective(m), "wb.dly"), m |-> m]
    ELSE [s |-> CallToread(s, 16, "wb.data"), m |-> [m EXCEPT !.fn = @ + 1]]

\* the head of writeBits for the next data byte of the call, or the return
\* of the call when no byte is left: the writer and the Master after it
NextByte(s, m) ==
    IF s.data = <<>>
    THEN [s |-> Return(s, Nil), m |-> m]
    ELSE IF FrameFull(m)
    THEN [s |-> CallToread([s EXCEPT !.i = 0], DelayDirective(m), "wb.dly"), m |-> m]
    ELSE [s |-> CallToread(s, 16, "wb.data"),
          m |-> IF m.dlyn > 0 THEN [m EXCEPT !.fn = @ + 1] ELSE m]

\* the werr check, the flen check and the first byte
WriteStart(w, op, data, req) ==
    /\ Affords("calls")
    /\ \/ LatchedReturn(w, op)
       \/ /\ ma.werr = Nil
          /\ IF ma.flen < 0
             THEN /\ crash' = "panic: " \o op \o " outside Begin:End block"
                  /\ wr' = [wr EXCEPT ![w] = [Enter(@, op) EXCEPT !.pc = "dead"]]
                  /\ UNCHANGED ma
             ELSE LET nb == NextByte([Enter(wr[w], op) EXCEPT !.data = data, !.k = 0,
                                                               !.req = req], ma)
                  IN  /\ wr' = [wr EXCEPT ![w] = nb.s]
                      /\ ma' = nb.m
                      /\ UNCHANGED crash
    /\ cnt' = Spend("calls")
    /\ UNCHANGED <<ch, drv, rd>>

\* the record with the data bytes a call was asked to write
Ask(bytes) == IF obs.on THEN [obs EXCEPT !.asked = @ \o bytes] ELSE obs

\* n times the byte b
Copies(b, n) == [j \in 1..n |-> b]

Write(w, data) ==
    /\ CallOK(w, {"open", "failed"})
    /\ WriteStart(w, "Write", data, Len(data))
    /\ obs' = Ask(data)

WriteString(w, str) ==
    /\ CallOK(w, {"open", "failed"})
    /\ WriteStart(w, "WriteString", str, Len(str))
    /\ obs' = Ask(str)

\* WriteN with the loop for k := 1; k < n; k++
WriteNOneShort(w, b, n) ==
    /\ CallOK(w, {"open", "failed"})
    /\ WriteStart(w, "WriteN", [j \in 1..(n - 1) |-> b], n)
    /\ obs' = Ask(Copies(b, n))

\* tobits of b once, then writeBits n times
WriteN(w, b, n) ==
    /\ CallOK(w, {"open", "failed"})
    /\ WriteStart(w, "WriteN", [j \in 1..n |-> b], n)
    /\ obs' = Ask(Copies(b, n))

\* writeBits, the delay block: one ma.drv.Write(ibuf) of the loop
WriteDelay(w) ==
    /\ Running
    /\ wr[w].pc = "wb.dly"
    /\ wr[w].err = Nil
    /\ wr[w].i < ma.dlyn
    /\ drvWrite(w, DelayBlock(ma), [wr[w] EXCEPT !.i = @ + 1], [wr[w] EXCEPT !.pc = "werr"],
                ma, <<>>)
    /\ UNCHANGED <<ch, rd, cnt, crash>>

\* writeBits: toread of the delay failed
WriteDelayErr(w) ==
    /\ Running
    /\ wr[w].pc = "wb.dly"
    /\ wr[w].err # Nil
    /\ wr' = [wr EXCEPT ![w].pc = "werr"]
    /\ UNCHANGED <<ma, ch, drv, rd, cnt, obs, crash>>

\* WriteDelayDone that goes on to ma.drv.Write(bits[:]) without toread
WriteDelayDoneNoToread(w) ==
    /\ Running
    /\ wr[w].pc = "wb.dly"
    /\ wr[w].err = Nil
    /\ wr[w].i >= ma.dlyn
    /\ ma' = [ma EXCEPT !.fn = 1]
    /\ wr' = [wr EXCEPT ![w].pc = "wb.data"]
    /\ UNCHANGED <<ch, drv, rd, cnt, obs, crash>>

\* writeBits, after the delay block: ma.fn = 0; ma.fn++; toread(len(bits))
WriteDelayDone(w) ==
    /\ Running
    /\ wr[w].pc = "wb.dly"
    /\ wr[w].err = Nil
    /\ wr[w].i >= ma.dlyn
    /\ ma' = [ma EXCEPT !.fn = 1]
    /\ wr' = [wr EXCEPT ![w] = CallToread(@, 16, "wb.data")]
    /\ UNCHANGED <<ch, drv, rd, cnt, obs, crash>>

\* the line words of the data byte b
Window(m, b) == [j \in 1..16 |-> Word(tobits(m, b)[j], "dat", j, b)]

\* writeBits: ma.drv.Write(bits[:]), then the next byte of the call
WriteData(w) ==
    /\ Running
    /\ wr[w].pc = "wb.data"
    /\ IF wr[w].err # Nil
       THEN /\ wr' = [wr EXCEPT ![w].pc = "werr"]
            /\ UNCHANGED <<ma, drv, obs>>
       ELSE LET nb == NextByte([wr[w] EXCEPT !.k = @ + 1, !.data = Tail(@)], ma)
            IN  drvWrite(w, Window(ma, Head(wr[w].data)), nb.s, [wr[w] EXCEPT !.pc = "werr"],
                         nb.m, <<Head(wr[w].data)>>)
    /\ UNCHANGED <<ch, rd, cnt, crash>>

\* ma.werror(err); return k, err
WriteErr(w) ==
    /\ Running
    /\ wr[w].pc = "werr"
    /\ werror(w, wr[w].err)
    /\ UNCHANGED <<drv, rd, cnt, obs>>

(***************************************************************************)
(* Flush and NoDelay.                                                      *)
(***************************************************************************)
\* the werr check and toread(0)
Flush(w) ==
    /\ CallOK(w, {"open", "failed"})
    /\ Affords("calls")
    /\ \/ LatchedReturn(w, "Flush")
       \/ /\ ma.werr = Nil
          /\ wr' = [wr EXCEPT ![w] = CallToread(Enter(@, "Flush"), 0, "Flush.drv")]
          /\ UNCHANGED <<ma, crash>>
    /\ cnt' = Spend("calls")
    /\ UNCHANGED <<ch, drv, rd, obs>>

\* if err == nil { err = ma.drv.Flush() }
FlushDrv(w) ==
    /\ Running
    /\ wr[w].pc = "Flush.drv"
    /\ LET next == [wr[w] EXCEPT !.pc = "Flush.ret"]
       IN  IF wr[w].err = Nil
           THEN drvFlush(w, next)
           ELSE wr' = [wr EXCEPT ![w] = next] /\ UNCHANGED drv
    /\ UNCHANGED <<ma, ch, rd, cnt, obs, crash>>

\* Flush that returns the error of the driver without ma.werror(err)
FlushRetNoLatch(w) ==
    /\ Running
    /\ wr[w].pc = "Flush.ret"
    /\ wr' = [wr EXCEPT ![w] = Return(@, wr[w].err)]
    /\ UNCHANGED <<ma, ch, crash, drv, rd, cnt, obs>>

\* if err != nil { ma.werror(err) }; return err
FlushRet(w) ==
    /\ Running
    /\ wr[w].pc = "Flush.ret"
    /\ IF wr[w].err # Nil
       THEN werror(w, wr[w].err)
       ELSE /\ wr' = [wr EXCEPT ![w] = Return(@, Nil)]
            /\ UNCHANGED <<ma, ch, crash>>
    /\ UNCHANGED <<drv, rd, cnt, obs>>

\* the record of a NoDelay call: the number of data bytes written before it
NoDelayCalled ==
    IF obs.on THEN [obs EXCEPT !.nodelay = TRUE, !.nd = @ \cup {Len(obs.data)}] ELSE obs

\* NoDelay that also forgets the delay length
NoDelayDropsDelay(w) ==
    /\ CallOK(w, {"open"})
    /\ Affords("calls")
    /\ ma' = [ma EXCEPT !.fn = 0, !.dlyn = 0]
    /\ obs' = NoDelayCalled
    /\ cnt' = Spend("calls")
    /\ UNCHANGED <<ch, drv, wr, rd, crash>>

\* ma.fn = 0
NoDelay(w) ==
    /\ CallOK(w, {"open"})
    /\ Affords("calls")
    /\ ma' = [ma EXCEPT !.fn = 0]
    /\ obs' = NoDelayCalled
    /\ cnt' = Spend("calls")
    /\ UNCHANGED <<ch, drv, wr, rd, crash>>

(***************************************************************************)
(* End.                                                                    *)
(***************************************************************************)
\* End with the directive -len(ma.post)
EndCountsPostOnly(w) ==
    /\ CallOK(w, {"open", "failed"})
    /\ \/ LatchedReturn(w, "End")
       \/ /\ ma.werr = Nil
          /\ ma' = [ma EXCEPT !.flen = -ma.flen]
          /\ wr' = [wr EXCEPT ![w] = CallToread(Enter(@, "End"), -Len(ma.post), "End.idle")]
          /\ UNCHANGED crash
    /\ UNCHANGED <<ch, drv, rd, cnt, obs>>

\* the werr check, flen and the overhead directive
End(w) ==
    /\ CallOK(w, {"open", "failed"})
    /\ \/ LatchedReturn(w, "End")
       \/ /\ ma.werr = Nil
          /\ ma' = [ma EXCEPT !.flen = -ma.flen]
          /\ wr' = [wr EXCEPT ![w] =
                      CallToread(Enter(@, "End"),
                                 -(Len(ma.post) + (IF ma.cpha1 THEN 0 ELSE 1)), "End.idle")]
          /\ UNCHANGED crash
    /\ UNCHANGED <<ch, drv, rd, cnt, obs>>

\* End's idle word written if ma.cpha1
EndIdleCpha1(w) ==
    /\ Running
    /\ wr[w].pc = "End.idle"
    /\ LET next == [wr[w] EXCEPT !.pc = "End.post"]
       IN  IF ma.cpha1 /\ wr[w].err = Nil
           THEN drvWrite(w, Tagged(<<IdleWord(ma)>>, "idle"), next, next, ma, <<>>)
           ELSE wr' = [wr EXCEPT ![w] = next] /\ UNCHANGED <<ma, drv, obs>>
    /\ UNCHANGED <<ch, rd, cnt, crash>>

\* if !ma.cpha1 && err == nil: ma.drv.Write([]byte{ma.base | ma.cidle})
EndIdle(w) ==
    /\ Running
    /\ wr[w].pc = "End.idle"
    /\ LET next == [wr[w] EXCEPT !.pc = "End.post"]
       IN  IF ~ma.cpha1 /\ wr[w].err = Nil
           THEN drvWrite(w, Tagged(<<IdleWord(ma)>>, "idle"), next, next, ma, <<>>)
           ELSE wr' = [wr EXCEPT ![w] = next] /\ UNCHANGED <<ma, drv, obs>>
    /\ UNCHANGED <<ch, rd, cnt, crash>>

\* if len(ma.post) > 0 && err == nil: ma.drv.Write(ma.post)
EndPost(w) ==
    /\ Running
    /\ wr[w].pc = "End.post"
    /\ LET next == [wr[w] EXCEPT !.pc = "End.mark"]
       IN  IF Len(ma.post) > 0 /\ wr[w].err = Nil
           THEN drvWrite(w, Tagged(ma.post, "post"), next, next, ma, <<>>)
           ELSE wr' = [wr EXCEPT ![w] = next] /\ UNCHANGED <<ma, drv, obs>>
    /\ UNCHANGED <<ch, rd, cnt, crash>>

\* End without ma.toread(0)
EndMarkSkipped(w) ==
    /\ Running
    /\ wr[w].pc = "End.mark"
    /\ wr' = [wr EXCEPT ![w].pc = "End.flush"]
    /\ UNCHANGED <<ma, ch, drv, rd, cnt, obs, crash>>

\* if err == nil { err = ma.toread(0) }
EndMark(w) ==
    /\ Running
    /\ wr[w].pc = "End.mark"
    /\ wr' = [wr EXCEPT ![w] = IF wr[w].err = Nil THEN CallToread(@, 0, "End.flush")
                                                  ELSE [@ EXCEPT !.pc = "End.flush"]]
    /\ UNCHANGED <<ma, ch, drv, rd, cnt, obs, crash>>

\* if err == nil { err = ma.drv.Flush() }
EndFlush(w) ==
    /\ Running
    /\ wr[w].pc = "End.flush"
    /\ LET next == [wr[w] EXCEPT !.pc = "End.ret"]
       IN  IF wr[w].err = Nil
           THEN drvFlush(w, next)
           ELSE wr' = [wr EXCEPT ![w] = next] /\ UNCHANGED drv
    /\ UNCHANGED <<ma, ch, rd, cnt, obs, crash>>

\* if err != nil { ma.werror(err); return err }; ma.wmtx.Unlock(); return nil
EndRet(w) ==
    /\ Running
    /\ wr[w].pc = "End.ret"
    /\ IF wr[w].err # Nil
       THEN werror(w, wr[w].err) /\ UNCHANGED obs
       ELSE /\ UNCHANGED ch
            /\ IF ma.wmtx
               THEN /\ ma' = [ma EXCEPT !.wmtx = FALSE]
                    /\ wr' = [wr EXCEPT ![w] = Return(@, Nil)]
                    /\ obs' = IF obs.on THEN [obs EXCEPT !.done = TRUE] ELSE obs
                    /\ UNCHANGED crash
               ELSE /\ crash' = "fatal error: sync: unlock of unlocked mutex"
                    /\ wr' = [wr EXCEPT ![w].pc = "dead"]
                    /\ UNCHANGED <<ma, obs>>
    /\ UNCHANGED <<drv, rd, cnt>>

(***************************************************************************)
(* The reader: Read, ReadN, discard, readBits.                             *)
(***************************************************************************)
\* Read or ReadN returns (m, err) to its caller, who is then free to make
\* the next call
RReturn(s, err) == [ReaderInit EXCEPT !.n = s.n, !.m = s.m, !.err = err]

\* after discard returned err: a call of length 0 returns, the loop goes on
\* to readBits or returns the error
AfterDiscard(s, err) ==
    IF s.n = 0 \/ err # Nil THEN RReturn(s, err) ELSE [s EXCEPT !.pc = "bits"]

\* discard that goes to the receive loop whatever ma.dr is
EnterDiscardNoReady(s, ign) == [s EXCEPT !.pc = "recv", !.ign = ign]

\* discard(&bits, ign): if ma.dr { return nil }, else the receive loop
EnterDiscard(s, ign) ==
    IF ma.dr THEN AfterDiscard(s, Nil) ELSE [s EXCEPT !.pc = "recv", !.ign = ign]

\* Read and ReadN that call discard(&bits, true) for every length
ReadStartIgnoresMarks(op, n) ==
    /\ Running
    /\ rd.pc = "idle"
    /\ rd' = EnterDiscard([rd EXCEPT !.op = op, !.n = n, !.m = 0, !.err = Nil], TRUE)
    /\ UNCHANGED <<ma, ch, drv, wr, cnt, obs, crash>>

ReadStart(op, n) ==
    /\ Running
    /\ rd.pc = "idle"
    /\ rd' = EnterDiscard([rd EXCEPT !.op = op, !.n = n, !.m = 0, !.err = Nil], n # 0)
    /\ UNCHANGED <<ma, ch, drv, wr, cnt, obs, crash>>

Read(n) == ReadStart("Read", n)

ReadN(n) == ReadStart("ReadN", n)

\* the value of the field ma.tord as the reader loads it: werror writes the
\* field with no synchronisation, so after it the reader gets the nil
\* channel or still the channel made by NewMaster
LoadTord == IF ma.tord = "nil" THEN {"nil", "chan"} ELSE {"chan"}

\* what discard does with the directive d
Directive(s, d) ==
    IF d = 16 THEN [s |-> AfterDiscard(s, Nil), dr |-> TRUE, crash |-> ""]
    ELSE IF d = 0
    THEN [s |-> IF s.ign THEN s ELSE AfterDiscard(s, Nil), dr |-> ma.dr, crash |-> ""]
    ELSE IF d > 0
    THEN [s |-> [s EXCEPT !.pc = "dead"], dr |-> ma.dr, crash |-> "panic: m>0 && m!=len(bits)"]
    ELSE IF -d > 16
    THEN [s |-> [s EXCEPT !.pc = "dead"], dr |-> ma.dr,
          crash |-> "panic: slice bounds out of range"]
    ELSE [s |-> [s EXCEPT !.pc = "disc", !.need = -d], dr |-> ma.dr, crash |-> ""]

\* m, ok := <-ma.tord and the switch on m
Recv ==
    /\ Running
    /\ rd.pc = "recv"
    /\ \E ref \in LoadTord :
          IF ref = "nil"
          THEN /\ rd' = [rd EXCEPT !.pc = "nilrecv", !.bits = <<>>]
               /\ UNCHANGED <<ma, ch, crash>>
          ELSE IF ch.q # <<>>
          THEN LET got == Directive([rd EXCEPT !.bits = <<>>], Head(ch.q))
               IN  /\ ch' = [ch EXCEPT !.q = Tail(@)]
                   /\ rd' = got.s
                   /\ ma' = [ma EXCEPT !.dr = got.dr]
                   /\ crash' = got.crash
          ELSE /\ ch.closed             \* a receive on an empty channel blocks
               /\ rd' = AfterDiscard([rd EXCEPT !.bits = <<>>], ma.werr)
               /\ UNCHANGED <<ma, ch, crash>>
    /\ UNCHANGED <<drv, wr, cnt, obs>>

\* the driver after its first n words are read
Used(d, n) == [d EXCEPT !.wire = SubSeq(@, n + 1, Len(@)), !.flushed = @ - n]

\* a failing io.ReadFull of need words: the driver fails with e after j words
ReadFails(need) ==
    {[j |-> j, err |-> IF e = EOF /\ j > 0 THEN ErrUnexpectedEOF ELSE e] :
        j \in {j \in {0, 1} : j < need /\ j <= drv.flushed}, e \in {ERead, EOF}}

\* io.ReadFull(ma.drv, bits[:-m]) of discard
ReadDiscard ==
    /\ Running
    /\ rd.pc = "disc"
    /\ \/ /\ drv.flushed >= rd.need
          /\ drv' = Used(drv, rd.need)
          /\ rd' = [rd EXCEPT !.pc = "recv", !.bits = SubSeq(drv.wire, 1, rd.need)]
       \/ /\ drv.rfails > 0
          /\ \E f \in ReadFails(rd.need) :
                /\ drv' = [Used(drv, f.j) EXCEPT !.rfails = @ - 1]
                /\ rd' = RReturn([rd EXCEPT !.bits = SubSeq(drv.wire, 1, f.j)], f.err)
    /\ UNCHANGED <<ma, ch, wr, cnt, obs, crash>>

\* readBits: io.ReadFull(ma.drv, bits[:]); ma.dr = false
ReadBits ==
    /\ Running
    /\ rd.pc = "bits"
    /\ \/ /\ drv.flushed >= 16
          /\ drv' = Used(drv, 16)
          /\ rd' = [rd EXCEPT !.pc = "store", !.bits = SubSeq(drv.wire, 1, 16)]
       \/ /\ drv.rfails > 0
          /\ \E f \in ReadFails(16) :
                /\ drv' = [Used(drv, f.j) EXCEPT !.rfails = @ - 1]
                /\ rd' = RReturn([rd EXCEPT !.bits = SubSeq(drv.wire, 1, f.j)],
                                 IF f.err = EOF THEN ErrUnexpectedEOF ELSE f.err)
    /\ ma' = [ma EXCEPT !.dr = FALSE]
    /\ UNCHANGED <<ch, wr, cnt, obs, crash>>

\* Store with the loop test m <= n
StoreOneMore ==
    /\ Running
    /\ rd.pc = "store"
    /\ LET s == [rd EXCEPT !.m = @ + 1, !.bits = <<>>,
                           !.out = IF rd.op = "Read"
                                   THEN Append(@, tobyte(ma, Values(rd.bits))) ELSE @]
       IN  rd' = IF s.m <= s.n THEN EnterDiscard(s, TRUE) ELSE RReturn(s, Nil)
    /\ UNCHANGED <<ma, ch, drv, wr, cnt, obs, crash>>

\* data[m] = ma.tobyte(&bits); m++ (Read); m++ (ReadN); then the loop test
Store ==
    /\ Running
    /\ rd.pc = "store"
    /\ LET s == [rd EXCEPT !.m = @ + 1, !.bits = <<>>,
                           !.out = IF rd.op = "Read"
                                   THEN Append(@, tobyte(ma, Values(rd.bits))) ELSE @]
       IN  rd' = IF s.m < s.n THEN EnterDiscard(s, TRUE) ELSE RReturn(s, Nil)
    /\ UNCHANGED <<ma, ch, drv, wr, cnt, obs, crash>>

(***************************************************************************)
(* The program: two writers and a reader on one Master.                    *)
(***************************************************************************)
WriterCalls(w) ==
    \/ BeginLock(w)
    \/ \E data \in DataSet : Write(w, data)
    \/ \E str \in StrSet : WriteString(w, str)
    \/ \E a \in WriteNSet : WriteN(w, a.b, a.n)
    \/ Flush(w)
    \/ NoDelay(w)
    \/ End(w)

WriterSteps(w) ==
    \/ BeginCheck(w) \/ BeginPre(w) \/ BeginIdle(w) \/ BeginRet(w)
    \/ toreadFlush(w) \/ toreadSend(w)
    \/ WriteDelay(w) \/ WriteDelayErr(w) \/ WriteDelayDone(w) \/ WriteData(w) \/ WriteErr(w)
    \/ FlushDrv(w) \/ FlushRet(w)
    \/ EndIdle(w) \/ EndPost(w) \/ EndMark(w) \/ EndFlush(w) \/ EndRet(w)

ReaderCalls == (\E n \in ReadLens : Read(n)) \/ (\E n \in ReadNLens : ReadN(n))

ReaderSteps == Recv \/ ReadDiscard \/ ReadBits \/ Store

Next ==
    \/ \E w \in Writers : WriterCalls(w) \/ WriterSteps(w)
    \/ ReaderCalls
    \/ ReaderSteps

Spec == Init /\ [][Next]_vars

(***************************************************************************)
(* One writer and no reader, as the tests of the package run: the driver   *)
(* is a buffer, every transaction is recorded, the calls are limited.      *)
(***************************************************************************)
SeqSetUps ==
    SetUps \cup
    {SetUp(<<128>>, <<>>, 0, Config(MSBF + CPOL0 + CPHA1, 2, 2)),
     SetUp(<<>>, <<64>>, 32, Config(LSBF + CPOL1 + CPHA0, 2, 1))}

InitSeq ==
    InitWith({SetUpOf(m, su) : m \in Masters, su \in SeqSetUps}, SeqCap,
             {MakeDriver(FALSE, 0)}, Limit(MaxTx, MaxCalls, 0), TRUE)

NextSeq == \E w \in {"w1"} : WriterCalls(w) \/ WriterSteps(w)

SpecSeq == InitSeq /\ [][NextSeq]_vars

(***************************************************************************)
(* One writer that also calls the write operations with no transaction     *)
(* open, on a Master that is set up or fresh from NewMaster.               *)
(***************************************************************************)
InitMisuse ==
    InitWith(Masters \cup {SetUpOf(m, su) : m \in Masters, su \in SetUps}, SeqCap,
             {MakeDriver(FALSE, 0)}, Limit(MaxTx, MaxCalls, MaxSet), TRUE)

Setters ==
    \/ \E pp \in PrePostSet : SetPrePost(pp.pre, pp.post)
    \/ \E base \in BaseSet : SetBase(base)
    \/ \E cfg \in ConfigSet : Configure(cfg)

WriteOutside(w, data) ==
    /\ CallOK(w, {"none"})
    /\ WriteStart(w, "Write", data, Len(data))
    /\ obs' = Ask(data)

WriteStringOutside(w, str) ==
    /\ CallOK(w, {"none"})
    /\ WriteStart(w, "WriteString", str, Len(str))
    /\ obs' = Ask(str)

WriteNOutside(w, b, n) ==
    /\ CallOK(w, {"none"})
    /\ WriteStart(w, "WriteN", [j \in 1..n |-> b], n)
    /\ obs' = Ask(Copies(b, n))

OutsideCalls(w) ==
    \/ \E data \in DataSet : WriteOutside(w, data)
    \/ \E str \in StrSet : WriteStringOutside(w, str)
    \/ \E a \in WriteNSet : WriteNOutside(w, a.b, a.n)

NextMisuse ==
    \/ \E w \in {"w1"} : WriterCalls(w) \/ WriterSteps(w) \/ OutsideCalls(w)
    \/ Setters

SpecMisuse == InitMisuse /\ [][NextMisuse]_vars

(***************************************************************************)
(* Properties of the reader and the writers running together (Spec).       *)
(***************************************************************************)
\* the reader holds the 16 line words of exactly one data byte, in place
IsWindow(ws) == Len(ws) = 16 /\ ws = Window(ma, ws[1].b)

\* C1: every 16-word block the reader decodes is the complete window of one
\* data byte, whose value it decodes, and no word of a data window is ever
\* discarded; the driver hands the words over in the order they were
\* written, so the windows are decoded in that order and no overhead word
\* is decoded.
C1_ReaderDecodesWholeWindows ==
    /\ rd.pc = "store" =>
          /\ IsWindow(rd.bits)
          /\ tobyte(ma, Values(rd.bits)) = rd.bits[1].b
    /\ rd.pc = "recv" => \A j \in 1..Len(rd.bits) : rd.bits[j].kind # "dat"

\* the reader decoded the second data byte of a Read, after the delay block
\* between the two windows was discarded
C1_Witness ==
    /\ rd.pc = "store"
    /\ rd.op = "Read"
    /\ rd.m = 1
    /\ ma.dlyn > 0
    /\ ma.werr = Nil

\* the writer w waits to send on the full coordinator
BlockedOnFull(w) == wr[w].pc = "send" /\ ChanFull(ch) /\ ~ch.closed

\* the reader waits for line words that the driver has not sent out
BlockedOnDriver ==
    \/ rd.pc = "disc" /\ drv.flushed < rd.need
    \/ rd.pc = "bits" /\ drv.flushed < 16

\* C2: no state is reachable in which a writer is blocked sending on the
\* full coordinator while the reader is blocked waiting for line words that
\* were written but not flushed.
C2_NoFlushDeadlock == \A w \in Writers : ~(BlockedOnFull(w) /\ BlockedOnDriver)

\* over a buffering driver the writer found the coordinator full and
\* flushed; the reader has the words of its window
C2_Witness ==
    /\ drv.buffered
    /\ \E w \in Writers : BlockedOnFull(w)
    /\ rd.pc = "bits"
    /\ drv.flushed >= 16

\* C3: while the transaction of one writer is open (its Begin returned nil,
\* its End has not returned), no step of another writer hands a word to the
\* driver, flushes it, sends or closes on the coordinator, or opens a
\* transaction.
C3_TransactionsExclusive ==
    [][\A a, b \in Writers :
          (a # b /\ wr[a].tx = "open" /\ wr'[b] # wr[b]) =>
             (drv' = drv /\ ch' = ch /\ wr'[b].tx # "open")]_vars

\* a second writer is inside Begin, past Lock, while the transaction of the
\* first is open
C3_Witness == wr["w1"].tx = "open" /\ wr["w2"].pc = "Begin.chk"

\* the reader receives on the nil channel: no step of the program leads on
\* from there
ReadBlockedForever == rd.pc = "nilrecv"

\* C4: after a write error is latched, no Read or ReadN call blocks for
\* ever: each returns the latched error.
C4_LatchedReadsReturn == ~ReadBlockedForever

\* C5: every writer operation called once an error is latched returns that
\* error to its caller: none ends the program.
C5_LatchedWritesReturn == \A w \in Writers : wr[w].lat # Nil => wr[w].pc # "dead"

\* the mutex is free, or held only by a Begin between Lock and its check of
\* werr
MutexFreeForBegin == ma.wmtx => \E v \in Writers : wr[v].pc = "Begin.chk"

\* C6: once Begin or End has returned an error to a writer the mutex is not
\* held (but for a Begin that is between its Lock and its check of werr), so
\* that a later Begin acquires it.
C6_ErrorReturnsReleaseMutex ==
    (\E w \in Writers : wr[w].tx = "failed") => MutexFreeForBegin

\* End of one writer returned the error of the driver, Begin of the other the
\* latched error
C6_Witness ==
    /\ wr["w1"].tx = "failed"
    /\ wr["w2"].tx = "failed"
    /\ ma.werr = EFlush
    /\ ~ma.wmtx

(***************************************************************************)
(* Properties of the write operations called with no transaction open      *)
(* (SpecMisuse).                                                           *)
(***************************************************************************)
WriteOps == {"Write", "WriteString", "WriteN"}

OutsidePanics == {"panic: " \o op \o " outside Begin:End block" : op \in WriteOps}

\* C7: a call of Write, WriteString or WriteN made while the caller has no
\* transaction open ends in the panic of a programmer error; it does not go
\* on to the coordinator and the driver.
C7_WriteOutsidePanics ==
    \A w \in Writers :
        (wr[w].op \in WriteOps /\ wr[w].tx # "open" /\ wr[w].pc # "idle") =>
            (wr[w].pc = "dead" /\ crash \in OutsidePanics)

(***************************************************************************)
(* Properties of the line words of a transaction (SpecSeq).                *)
(***************************************************************************)
\* the frame length set by Configure (flen carries it with a sign)
FrameLen(m) == IF m.flen < 0 THEN -m.flen ELSE m.flen

IdleIf(m, c) == IF c THEN Tagged(<<IdleWord(m)>>, "idle") ELSE <<>>

\* what precedes and what follows the data part of a transaction
Opening(m) == Tagged(m.pre, "pre") \o IdleIf(m, m.cpha1)
Closing(m) == IdleIf(m, ~m.cpha1) \o Tagged(m.post, "post")

\* the recorded words between the opening and the closing
DataPart(m, ws) == SubSeq(ws, Len(Opening(m)) + 1, Len(ws) - Len(Closing(m)))

RECURSIVE Windows(_, _)
Windows(m, data) ==
    IF data = <<>> THEN <<>> ELSE Window(m, Head(data)) \o Windows(m, Tail(data))

IsDat(x) == x.kind = "dat"

\* C8: the words handed to the driver by a successful transaction are pre,
\* one idle word iff CPHA1, the data windows in the order of the data bytes
\* with nothing but delay words (idle words) between them, one idle word iff
\* CPHA0, post; nothing else.
C8_TransactionLayout ==
    obs.done =>
        LET ws == obs.words
            mid == DataPart(ma, ws)
        IN  /\ Len(ws) >= Len(Opening(ma)) + Len(Closing(ma))
            /\ SubSeq(ws, 1, Len(Opening(ma))) = Opening(ma)
            /\ SubSeq(ws, Len(ws) - Len(Closing(ma)) + 1, Len(ws)) = Closing(ma)
            /\ SelectSeq(mid, IsDat) = Windows(ma, obs.data)
            /\ \A j \in 1..Len(mid) :
                  IsDat(mid[j]) \/ mid[j] = Word(IdleWord(ma), "dly", 0, 0)

\* a successful CPHA1 transaction with pre and three data bytes
C8_Witness ==
    /\ obs.done
    /\ ma.cpha1
    /\ ma.pre # <<>>
    /\ Len(obs.data) >= 3

\* a delay block: 2*Delay idle words
Delays(m) == [j \in 1..(2 * m.dlyn) |-> Word(IdleWord(m), "dly", 0, 0)]

\* the data part of a transaction of the data bytes data[i+1..]: a delay
\* block before the byte of index i iff i > 0 and i mod F = 0
RECURSIVE Framed(_, _, _)
Framed(m, data, i) ==
    IF i >= Len(data) THEN <<>>
    ELSE (IF i > 0 /\ i % FrameLen(m) = 0 THEN Delays(m) ELSE <<>>)
         \o Window(m, data[i + 1]) \o Framed(m, data, i + 1)

\* C9: in a successful transaction without NoDelay a block of 2*Delay idle
\* words stands before the window of the data byte of index i iff i > 0 and
\* i mod F = 0, and no other word stands between, before or after the
\* windows.
C9_DelayBetweenFrames ==
    (obs.done /\ ~obs.nodelay) => DataPart(ma, obs.words) = Framed(ma, obs.data, 0)

\* a successful transaction of two full frames with Delay 2
C9_Witness ==
    /\ obs.done
    /\ ~obs.nodelay
    /\ ma.dlyn = 2
    /\ FrameLen(ma) = 2
    /\ Len(obs.data) = 4

\* the number of delay blocks of a transaction of n data bytes
DelayBlocks(m, n) == IF n = 0 THEN 0 ELSE (n - 1) \div FrameLen(m)

\* C10 (amended): a successful transaction without NoDelay hands
\* len(pre) + 1 + 16*N + 2*Delay*floor((N-1)/F) + len(post) words to the
\* driver (no delay word for N = 0).
C10_TransactionLength ==
    (obs.done /\ ~obs.nodelay) =>
        Len(obs.words) = Len(ma.pre) + 1 + 16 * Len(obs.data)
                         + 2 * ma.dlyn * DelayBlocks(ma, Len(obs.data)) + Len(ma.post)

\* a successful transaction of whole frames with a delay
C10_Witness ==
    /\ obs.done
    /\ ~obs.nodelay
    /\ ma.dlyn > 0
    /\ Len(obs.data) > 0
    /\ Len(obs.data) % FrameLen(ma) = 0

\* C10 as stated: the transaction hands
\* len(pre) + 1 + 16*N + 2*Delay*floor(N/F) + len(post) words to the driver.
C10_AsStated ==
    (obs.done /\ ~obs.nodelay) =>
        Len(obs.words) = Len(ma.pre) + 1 + 16 * Len(obs.data)
                         + 2 * ma.dlyn * (Len(obs.data) \div FrameLen(ma)) + Len(ma.post)


(***************************************************************************)
(* One transaction of one writer that also has WriteByte, the operation of *)
(* the revision of src/spi/spi.go; every call is recorded.                 *)
(***************************************************************************)
\* arguments of WriteByte
ByteSet == {15}

\* WriteByte: the flen check, then the byte goes the way of a byte of Write;
\* spi.go has no check of werr, so with an error latched the byte goes the
\* same way
WriteByte(w, b) ==
    /\ CallOK(w, {"open"})
    /\ IF ma.werr = Nil
       THEN WriteStart(w, "WriteByte", <<b>>, 1)
       ELSE /\ Affords("calls")
            /\ ma.flen > 0
            /\ LET nb == NextByte([Enter(wr[w], "WriteByte") EXCEPT !.data = <<b>>, !.k = 0,
                                                                     !.req = 1], ma)
               IN  /\ wr' = [wr EXCEPT ![w] = nb.s]
                   /\ ma' = nb.m
            /\ cnt' = Spend("calls")
            /\ UNCHANGED <<ch, drv, rd, crash>>
    /\ obs' = Ask(<<b>>)

InitWrites ==
    InitWith({SetUpOf(m, su) : m \in Masters, su \in SeqSetUps}, SeqCap,
             {MakeDriver(FALSE, 0)}, Limit(1, MaxCalls, 0), TRUE)

NextWrites ==
    \E w \in {"w1"} : WriterCalls(w) \/ WriterSteps(w) \/ (\E b \in ByteSet : WriteByte(w, b))

SpecWrites == InitWrites /\ [][NextWrites]_vars

(***************************************************************************)
(* Properties of the write operations of one transaction (SpecWrites).     *)
(***************************************************************************)
NonZero(d) == d # 0

\* the directives of n data bytes: 16 for each, the directive of a delay
\* block before the byte of index i iff Delay > 0, i > 0 and i mod F = 0
RECURSIVE DirectivesOf(_, _, _)
DirectivesOf(m, n, i) ==
    IF i >= n THEN <<>>
    ELSE (IF m.dlyn > 0 /\ i > 0 /\ i % FrameLen(m) = 0 THEN <<-2 * m.dlyn>> ELSE <<>>)
         \o <<16>> \o DirectivesOf(m, n, i + 1)

\* the calls of the transaction so far have all returned nil and NoDelay was
\* not among them
WritesReturned ==
    /\ wr["w1"].pc = "idle"
    /\ wr["w1"].tx = "open"
    /\ ma.werr = Nil
    /\ ~obs.nodelay

\* C11: after any sequence of Write, WriteString, WriteByte and WriteN calls
\* of one transaction (Flush calls among them), the line words handed to
\* the driver and the directives enqueued (flush marks apart) are those of
\* the concatenation of the data bytes the calls were asked to write: the
\* windows of the bytes in order, with the delay blocks and their
\* directives placed by the index of the byte in the concatenation.
C11_StreamsDependOnDataOnly ==
    WritesReturned =>
        /\ obs.words = Opening(ma) \o Framed(ma, obs.asked, 0)
        /\ ch.q # <<>>
        /\ Head(ch.q) = -Len(Opening(ma))
        /\ SelectSeq(Tail(ch.q), NonZero) = DirectivesOf(ma, Len(obs.asked), 0)

\* three calls have written four data bytes, two frames with a delay
C11_Witness ==
    /\ WritesReturned
    /\ cnt.calls = 0
    /\ Len(obs.asked) = 4
    /\ ma.dlyn > 0
    /\ FrameLen(ma) = 2

(***************************************************************************)
(* One writer and the reader over a driver whose Read may fail once, with  *)
(* an error of its own or with io.EOF.                                     *)
(***************************************************************************)
InitRead ==
    InitWith({SetUpOf(m, su) : m \in Masters, su \in SetUps}, TordCap,
             {MakeDriver(b, 1) : b \in BOOLEAN}, NoLimit, FALSE)

\* the errors of the driver's Read as Read and ReadN return them
ReadErrors == {ERead, EOF, ErrUnexpectedEOF}

\* the caller of Read and ReadN gives up reading once the driver's Read
\* has failed
ReaderCallsUntilError == rd.err \notin ReadErrors /\ ReaderCalls

NextRead ==
    \/ \E w \in {"w1"} : WriterCalls(w) \/ WriterSteps(w)
    \/ ReaderCallsUntilError
    \/ ReaderSteps

SpecRead == InitRead /\ [][NextRead]_vars

(***************************************************************************)
(* Properties of Read and ReadN (SpecRead).                                *)
(***************************************************************************)
\* the reader is inside Read of an empty buffer
InEmptyRead == rd.op = "Read" /\ rd.n = 0 /\ rd.pc \in {"recv", "disc"}

\* the words the driver's Read delivered in this step
Delivered == SubSeq(drv.wire, 1, Len(drv.wire) - Len(drv'.wire))

Blocked == "blocked"
Panicked == "panic"

\* what a call finds: the queue of tord and whether it is closed, the value
\* ref it loads from ma.tord, ma.dr and ma.werr, the number of words the
\* driver can deliver; the driver's Read fails with the error fail once it
\* has delivered left more words (fail = Nil: it does not fail).  used
\* counts the words the call has read, got those of its last io.ReadFull.
View(ref, left, fail) ==
    [q |-> ch.q, closed |-> ch.closed, ref |-> ref, dr |-> ma.dr, werr |-> ma.werr,
     avail |-> drv.flushed, left |-> left, fail |-> fail, used |-> 0, got |-> 0]

\* the words in bits after the last io.ReadFull
BitsOf(v) == SubSeq(drv.wire, v.used - v.got + 1, v.used)

\* io.ReadFull(ma.drv, bits[:need])
ReadFullOf(v, need) ==
    IF v.fail # Nil /\ v.left < need /\ v.left <= v.avail - v.used
    THEN [v |-> [v EXCEPT !.used = @ + v.left, !.got = v.left, !.left = 0],
          err |-> IF v.fail = EOF /\ v.left > 0 THEN ErrUnexpectedEOF ELSE v.fail]
    ELSE IF need <= v.avail - v.used
    THEN [v |-> [v EXCEPT !.used = @ + need, !.got = need,
                          !.left = IF v.fail = Nil THEN @ ELSE @ - need],
          err |-> Nil]
    ELSE [v |-> v, err |-> Blocked]

\* discard(&bits, ign)
RECURSIVE discardOf(_, _)
discardOf(v, ign) ==
    IF v.dr THEN [v |-> v, err |-> Nil]
    ELSE IF v.ref = "nil" THEN [v |-> v, err |-> Blocked]
    ELSE IF v.q = <<>> THEN [v |-> v, err |-> IF v.closed THEN v.werr ELSE Blocked]
    ELSE LET d == Head(v.q)
             u == [v EXCEPT !.q = Tail(@)]
         IN  IF d = 16 THEN [v |-> [u EXCEPT !.dr = TRUE], err |-> Nil]
             ELSE IF d = 0
             THEN (IF ign THEN discardOf(u, ign) ELSE [v |-> u, err |-> Nil])
             ELSE IF d > 0 \/ -d > 16 THEN [v |-> u, err |-> Panicked]
             ELSE LET r == ReadFullOf(u, -d)
                  IN  IF r.err # Nil THEN r ELSE discardOf(r.v, ign)

\* readBits(&bits)
readBitsOf(v) ==
    LET r == ReadFullOf(v, 16)
    IN  IF r.err = Blocked THEN r
        ELSE [v |-> [r.v EXCEPT !.dr = FALSE],
              err |-> IF r.err = EOF THEN ErrUnexpectedEOF ELSE r.err]

\* Read: the loop for m < len(data)
RECURSIVE ReadLoop(_, _, _, _)
ReadLoop(v, n, m, out) ==
    IF m >= n THEN [v |-> v, m |-> m, err |-> Nil, out |-> out]
    ELSE LET a == discardOf(v, TRUE)
         IN  IF a.err # Nil THEN [v |-> a.v, m |-> m, err |-> a.err, out |-> out]
             ELSE LET b == readBitsOf(a.v)
                  IN  IF b.err # Nil THEN [v |-> b.v, m |-> m, err |-> b.err, out |-> out]
                      ELSE ReadLoop(b.v, n, m + 1, Append(out, tobyte(ma, Values(BitsOf(b.v)))))

\* Read(data) with len(data) = n
ReadOf(v, n) ==
    IF n = 0
    THEN LET a == discardOf(v, FALSE) IN [v |-> a.v, m |-> 0, err |-> a.err, out |-> <<>>]
    ELSE ReadLoop(v, n, 0, <<>>)

\* ReadN: the loop for m < n
RECURSIVE ReadNLoop(_, _, _)
ReadNLoop(v, n, m) ==
    IF m >= n THEN [v |-> v, m |-> m, err |-> Nil, out |-> <<>>]
    ELSE LET a == discardOf(v, TRUE)
         IN  IF a.err # Nil THEN [v |-> a.v, m |-> m, err |-> a.err, out |-> <<>>]
             ELSE LET b == readBitsOf(a.v)
                  IN  IF b.err # Nil THEN [v |-> b.v, m |-> m, err |-> b.err, out |-> <<>>]
                      ELSE ReadNLoop(b.v, n, m + 1)

\* ReadN with discard(&bits, true) for n = 0 as well
ReadNOfIgnoresMarks(v, n) ==
    IF n = 0
    THEN LET a == discardOf(v, TRUE) IN [v |-> a.v, m |-> 0, err |-> a.err, out |-> <<>>]
    ELSE ReadNLoop(v, n, 0)

\* ReadN(n)
ReadNOf(v, n) ==
    IF n = 0
    THEN LET a == discardOf(v, FALSE) IN [v |-> a.v, m |-> 0, err |-> a.err, out |-> <<>>]
    ELSE ReadNLoop(v, n, 0)

\* the lengths of the calls and what a call may find
CallLens == 0..2
Views ==
    {View(ref, 0, Nil) : ref \in LoadTord}
    \cup {View(ref, 0, ERead) : ref \in LoadTord}
    \cup {View(ref, left, EOF) : ref \in LoadTord, left \in 0..1}

(***************************************************************************)
(* One writer that makes one transaction and a reader that is called once  *)
(* the transaction has ended or failed: each call of Read or ReadN is one  *)
(* step.                                                                   *)
(***************************************************************************)
InitCalls ==
    InitWith({SetUpOf(m, su) : m \in Masters, su \in SetUps}, SeqCap,
             {MakeDriver(FALSE, 1)}, Limit(1, MaxCalls, 0), FALSE)

\* the state after a call that ended as r (a call that waits for the writer
\* takes no step)
Called(v, n, r) ==
    /\ Running
    /\ rd.pc = "idle"
    /\ rd.err \notin ReadErrors
    /\ wr["w1"].pc = "idle"
    /\ wr["w1"].tx # "open" \/ ma.werr # Nil
    /\ v.fail # Nil => drv.rfails > 0
    /\ r.err # Blocked
    /\ ch' = [ch EXCEPT !.q = r.v.q]
    /\ drv' = [Used(drv, r.v.used)
                 EXCEPT !.rfails = IF r.err \in ReadErrors THEN @ - 1 ELSE @]
    /\ ma' = [ma EXCEPT !.dr = r.v.dr]
    /\ rd' = IF r.err = Panicked THEN [rd EXCEPT !.pc = "dead"]
             ELSE RReturn([rd EXCEPT !.n = n, !.m = r.m], r.err)
    /\ crash' = IF r.err = Panicked THEN "panic: discard" ELSE crash
    /\ UNCHANGED <<wr, cnt, obs>>

ReadCall(n) == \E v \in Views : Called(v, n, ReadOf(v, n))

ReadNCall(n) == \E v \in Views : Called(v, n, ReadNOf(v, n))

NextCalls ==
    \/ \E w \in {"w1"} : WriterCalls(w) \/ WriterSteps(w)
    \/ \E n \in CallLens : ReadCall(n)
    \/ \E n \in CallLens : ReadNCall(n)

SpecCalls == InitCalls /\ [][NextCalls]_vars

\* C13: from every state the reader can be called in, for every length n,
\* ReadN(n) leaves the coordinator and the driver as Read of an n-byte
\* buffer does (the same directives popped, the same words consumed, the
\* same ma.dr) and returns the same count and the same error, also when it
\* does not return; only the decoded bytes are not stored.
C13_ReadNAsRead ==
    (Running /\ wr["w1"].pc = "idle") =>
        \A v \in Views, n \in CallLens : ReadNOf(v, n) = [ReadOf(v, n) EXCEPT !.out = <<>>]

\* ReadN(2) finds two data windows with a delay block between them, and a
\* flush mark on the way
C13_Witness ==
    /\ wr["w1"].pc = "idle"
    /\ ma.dlyn > 0
    /\ \E j \in 1..Len(ch.q) : ch.q[j] = 0
    /\ LET r == ReadNOf(View("chan", 0, Nil), 2)
       IN  r.m = 2 /\ r.err = Nil /\ Len(r.v.q) < Len(ch.q)

(***************************************************************************)
(* The results of the write and read calls.                                *)
(***************************************************************************)
\* the words a step hands to the driver
Written == SubSeq(drv'.wire, Len(drv.wire) + 1, Len(drv'.wire))

\* C14: a write call starts with count 0 and adds one exactly on the step
\* that hands the complete window of a data byte to the driver; a read call
\* starts with count 0, reads complete windows only into bits, and adds one
\* exactly when it decodes such a window; a call that returns nil returns
\* the requested length as its count (so the count returned with an error is
\* the number of complete windows written or read and decoded before it).
C14_CountsAndErrors ==
    [][LET s == wr["w1"]
           t == wr'["w1"]
       IN  /\ (s.pc = "idle" /\ t # s) => t.k = 0
           /\ s.pc # "idle" => t.k = s.k + (IF IsWindow(Written) THEN 1 ELSE 0)
           /\ (t.pc = "idle" /\ t.err = Nil) => t.k = t.req
           /\ (rd.pc = "idle" /\ rd' # rd) => rd'.m = 0
           /\ (rd.pc # "idle" /\ rd' # rd) =>
                  rd'.m = rd.m + (IF rd.pc = "store" THEN 1 ELSE 0)
           /\ (rd.pc # "idle" /\ rd' = rd) => rd'.m = rd.m
           /\ rd.pc = "store" => IsWindow(rd.bits)
           /\ (rd.pc = "bits" /\ IsWindow(Delivered)) => rd'.pc = "store"
           /\ rd.pc # "bits" => ~IsWindow(Delivered)
           /\ (rd'.pc = "idle" /\ rd'.err = Nil) => rd'.m = rd'.n
      ]_vars

\* a Write of two bytes failed in the second window and a Read of two bytes
\* met EOF inside the second window: both returned 1 with the error
C14_Witness ==
    /\ wr["w1"].pc = "idle" /\ wr["w1"].err = EWrite
    /\ wr["w1"].k = 1 /\ wr["w1"].req = 2
    /\ rd.pc = "idle" /\ rd.err = ErrUnexpectedEOF
    /\ rd.m = 1 /\ rd.n = 2

\* C15: when the driver reaches EOF before the directive being served is
\* satisfied, Read and ReadN return io.ErrUnexpectedEOF: in particular no
\* call returns the plain io.EOF of the driver.
C15_ShortReadIsUnexpectedEOF == rd.pc = "idle" => rd.err # EOF

(***************************************************************************)
(* The encoder and the decoder on their own: a Master made by NewMaster    *)
(* with the driver looping MOSI back (miso = mosi), set up by SetBase and  *)
(* Configure; then one byte goes through tobits (as in Write) and the      *)
(* window through tobyte (as in Read).                                     *)
(***************************************************************************)
InitCodec ==
    InitWith({NewMaster(k.sclk, k.mosi, k.mosi) :
                 k \in {k \in [sclk : {1}, mosi : {0, 16}] : BitAnd(k.sclk, k.mosi) = 0}},
             TordCap, {MakeDriver(FALSE, 0)}, NoLimit, FALSE)

\* var bits [16]byte; ma.tobits(&bits, b)
Encode(b) ==
    /\ Running
    /\ wr["w1"].data = <<>>
    /\ wr' = [wr EXCEPT !["w1"].data = <<b>>]
    /\ rd' = [rd EXCEPT !.bits = Window(ma, b)]
    /\ UNCHANGED <<ma, ch, drv, cnt, obs, crash>>

\* data[m] = ma.tobyte(&bits)
Decode ==
    /\ Running
    /\ rd.bits # <<>>
    /\ rd' = [rd EXCEPT !.out = <<tobyte(ma, Values(rd.bits))>>, !.bits = <<>>]
    /\ UNCHANGED <<ma, ch, drv, wr, cnt, obs, crash>>

NextCodec ==
    \/ \E base \in {0, 1, 16, 32} : wr["w1"].data = <<>> /\ SetBase(base)
    \/ \E mode \in 0..7, flen \in {-1, 0, 1, 2}, dly \in {-1, 0, 8, 9} :
          wr["w1"].data = <<>> /\ Configure(Config(mode, flen, dly))
    \/ \E b \in 0..255 : Encode(b)
    \/ Decode

SpecCodec == InitCodec /\ [][NextCodec]_vars

\* bit k of the byte b
BitOf(b, k) == (b \div (2 ^ k)) % 2 = 1

\* the level of the clock in the first sample of a bit cell
FirstOf(mode, sclk) ==
    LET cpol1 == (mode \div 2) % 2 = 1
        cpha1 == (mode \div 4) % 2 = 1
    IN  IF cpol1 = cpha1 THEN 0 ELSE sclk

\* the 16 samples buf carry the byte b on the lines of m
WindowOK(m, buf, b) ==
    LET outside == 255 - BitOr(m.sclk, m.mosi)
    IN  \A i \in 0..7 :
           /\ buf[2 * i + 2] = BitXor(buf[2 * i + 1], m.sclk)
           /\ BitAnd(buf[2 * i + 1], m.sclk) = m.cfirst
           /\ \A j \in {2 * i + 1, 2 * i + 2} :
                 BitAnd(buf[j], outside) = BitAnd(m.base, outside)
           /\ (BitAnd(buf[2 * i + 1], m.mosi) # 0) <=> BitOf(b, IF m.lsbf THEN i ELSE 7 - i)

\* Configure derives cfirst and the bit order from the mode
ModeDerived ==
    ma' # ma =>
        \A mode \in 0..7, flen \in {-1, 0, 1, 2}, dly \in {-1, 0, 8, 9} :
            Configure(Config(mode, flen, dly)) =>
                /\ ma'.cfirst = FirstOf(mode, ma.sclk)
                /\ ma'.lsbf = (mode % 2 = 1)

\* the step encodes a byte
Encoded == rd.bits = <<>> /\ rd'.bits # <<>>

\* base leaves the clock and the data line alone, and there is a data line
BaseClear == BitAnd(ma.base, BitOr(ma.sclk, ma.mosi)) = 0 /\ ma.mosi # 0

\* C16 as stated: for every mode, every base, every pair of masks with
\* sclk & mosi == 0 and every byte b the window of b has
\* buf[2i+1] = buf[2i] XOR sclk, the sclk bit of buf[2i] equal to cfirst (0,
\* sclk, sclk, 0 by mode), every bit outside sclk and mosi equal to base, and
\* the mosi bit of buf[2i] set exactly when the i-th bit of b in the selected
\* order is set.
C16_AsStated ==
    [][/\ ModeDerived
       /\ Encoded => WindowOK(ma, Values(rd'.bits), wr'["w1"].data[1])]_vars

\* C16: the same for every base with base & (sclk | mosi) == 0 and every
\* pair of masks with sclk & mosi == 0 and mosi != 0.
C16_WindowOfByte ==
    [][/\ ModeDerived
       /\ (Encoded /\ BaseClear) => WindowOK(ma, Values(rd'.bits), wr'["w1"].data[1])]_vars

C16_Witness ==
    /\ rd.bits # <<>> /\ wr["w1"].data = <<85>>
    /\ BaseClear /\ ma.base = 32
    /\ ma.lsbf /\ ma.cfirst = ma.sclk /\ ~ma.cpha1

C18_ConfigureChecks ==
    [][(ma' # ma \/ crash' # crash) =>
          \A mode \in 0..7, flen \in {-1, 0, 1, 2}, dly \in {-1, 0, 8, 9} :
              Configure(Config(mode, flen, dly)) =>
                  IF flen <= 0 \/ dly < 0 \/ dly > 8
                  THEN crash' # ""
                  ELSE crash' = "" /\ ma'.flen = -flen /\ ma'.dlyn = dly]_vars

C18_Witness == Running /\ ma.dlyn = 8 /\ ma.flen = -2 /\ ma.lsbf

(***************************************************************************)
(* The reader in lock-step with the writer.                                *)
(***************************************************************************)
RECURSIVE Announced(_)
\* the number of words the directives of q stand for
Announced(q) ==
    IF q = <<>> THEN 0
    ELSE (IF Head(q) < 0 THEN -Head(q) ELSE Head(q)) + Announced(Tail(q))

\* the words of popped directives that the reader has not consumed yet
Pending ==
    (IF ma.dr THEN 16 ELSE 0) + (IF rd.pc = "disc" THEN rd.need ELSE 0)

\* the words of its last directive that writer w has not handed to the
\* driver yet
Owed(w) ==
    LET s == wr[w]
        idle(c) == IF c THEN 1 ELSE 0
    IN  IF s.pc = "Begin.pre" THEN Len(ma.pre) + idle(ma.cpha1)
        ELSE IF s.pc = "Begin.idle" THEN idle(ma.cpha1)
        ELSE IF s.pc = "wb.dly" THEN 2 * (ma.dlyn - s.i)
        ELSE IF s.pc = "wb.data" THEN 16
        ELSE IF s.pc = "End.idle" THEN Len(ma.post) + idle(~ma.cpha1)
        ELSE IF s.pc = "End.post" THEN Len(ma.post)
        ELSE 0

\* no driver call has failed
NoError ==
    /\ Running
    /\ ma.werr = Nil
    /\ \A w \in Writers : wr[w].pc # "idle" => wr[w].err = Nil
    /\ rd.err = Nil

Enqueues(d) == ch'.q = Append(ch.q, d)

\* no driver call of the writers has failed
NoWriteError ==
    /\ Running
    /\ ma.werr = Nil
    /\ \A w \in Writers : wr[w].pc # "idle" => wr[w].err = Nil

\* C21: when Flush or End enqueues a flush mark and no driver call has
\* failed so far, the magnitudes of all the directives enqueued so far sum
\* to the number of words handed to the driver so far.
C21_MarksBalance ==
    [][(Enqueues(0) /\ NoWriteError /\ wr["w1"].op \in {"Flush", "End"}
            /\ wr["w1"].rpc \in {"Flush.drv", "End.flush"}) =>
          Announced(ch'.q) = Len(drv'.wire)]_vars

\* the mark of a Flush is enqueued after two data bytes and a delay block
\* between them
C21_Witness ==
    /\ NoWriteError
    /\ wr["w1"].pc = "Flush.drv"
    /\ Len(ch.q) > 3 /\ ch.q[Len(ch.q)] = 0 /\ ch.q[Len(ch.q) - 2] < 0
    /\ Len(drv.wire) > 32

\* the magnitude of a directive
Magnitude(d) == IF d < 0 THEN -d ELSE d

\* C22: directives are appended to the coordinator in the order of the
\* driver writes they describe: a directive is enqueued only when every word
\* described by the directives before it has been written, and words are
\* written only when the last directive enqueued describes them (16 for the
\* words of a data window, a negative count for overhead and delay words) and
\* its count is not exceeded.
C22_DirectiveBeforeWords ==
    [][/\ ch'.q # ch.q =>
             /\ Enqueues(ch'.q[Len(ch'.q)])
             /\ drv' = drv
             /\ NoWriteError => Announced(ch.q) = Len(drv.wire)
       /\ Written # <<>> =>
             /\ ch' = ch
             /\ ch.q # <<>>
             /\ LET d == ch.q[Len(ch.q)]
                IN  /\ Announced(ch.q) - Magnitude(d) <= Len(drv.wire)
                    /\ Len(drv'.wire) <= Announced(ch.q)
                    /\ \A j \in 1..Len(Written) : (Written[j].kind = "dat") <=> (d = 16)
      ]_vars

\* half of a delay block of two pairs is written
C22_Witness ==
    /\ NoWriteError
    /\ wr["w1"].pc = "wb.dly" /\ wr["w1"].i = 1 /\ ma.dlyn = 2
    /\ ch.q[Len(ch.q)] = -4
    /\ Announced(ch.q) = Len(drv.wire) + 2

(***************************************************************************)
(* The latch of the write error.                                           *)
(***************************************************************************)
\* C23: the coordinator is closed iff werr is set; werr, once set, keeps
\* its value; a writer operation that returns an error returns the latched
\* one, so every driver error returned to the writer is latched by then.
C23_ClosedIffLatched ==
    [][/\ ch.closed <=> ma.werr # Nil
       /\ ch'.closed <=> ma'.werr # Nil
       /\ ma.werr # Nil => ma'.werr = ma.werr
       /\ \A w \in Writers :
             (wr'[w] # wr[w] /\ wr'[w].pc = "idle" /\ wr'[w].err # Nil) =>
                 ma'.werr = wr'[w].err]_vars

\* the Flush of one writer failed and the Begin of the other returned the
\* latched error
C23_Witness ==
    /\ Running /\ ch.closed /\ ma.werr = EFlush
    /\ wr["w1"].pc = "idle" /\ wr["w1"].err = EFlush /\ wr["w1"].tx = "open"
    /\ wr["w2"].pc = "idle" /\ wr["w2"].err = EFlush /\ wr["w2"].tx = "failed"

(***************************************************************************)
(* The steps of Flush and End.                                             *)
(***************************************************************************)
\* how far a call of Flush or End has come
Stage(s) ==
    IF s.pc = "idle" THEN 10
    ELSE IF s.pc \in {"toread", "send"}
    THEN (IF s.rpc \in {"Flush.drv", "End.idle"} THEN 1 ELSE 6) + (IF s.pc = "send" THEN 1 ELSE 0)
    ELSE IF s.pc = "End.idle" THEN 3
    ELSE IF s.pc = "End.post" THEN 4
    ELSE IF s.pc = "End.mark" THEN 5
    ELSE IF s.pc \in {"Flush.drv", "End.flush"} THEN 8
    ELSE IF s.pc \in {"Flush.ret", "End.ret"} THEN 9
    ELSE 0

\* the directive that announces the closing of a transaction
EndOverhead == -(Len(ma.post) + (IF ma.cpha1 THEN 0 ELSE 1))

\* C24: a call of Flush or End goes forward through its steps; it enqueues
\* at the tail of the coordinator, and nothing but: Flush the mark 0, End its
\* overhead directive and then the mark 0, each exactly on the step that
\* leaves toread; the flush of the driver is the step after the mark; the call
\* returns nil only after that flush, and End releases the mutex, held
\* throughout, only on its return.
C24_MarkThenFlush ==
    [][LET s == wr["w1"]
           t == wr'["w1"]
       IN  (t # s /\ Running' /\ (s.op \in {"Flush", "End"} \/ t.op \in {"Flush", "End"})) =>
              /\ s.pc # "idle" => Stage(t) > Stage(s)
              /\ s.pc = "idle" => ch' = ch /\ drv' = drv
              /\ ch'.q # ch.q =>
                    /\ s.pc \in {"toread", "send"}
                    /\ \/ s.op = "Flush" /\ Enqueues(0) /\ t.pc = "Flush.drv"
                       \/ s.op = "End" /\ Enqueues(EndOverhead) /\ t.pc = "End.idle"
                       \/ s.op = "End" /\ Enqueues(0) /\ t.pc = "End.flush"
              /\ (t.pc \in {"Flush.drv", "End.idle", "End.flush"} /\ t.err = Nil) => ch'.q # ch.q
              /\ (s.pc \in {"Flush.drv", "End.flush"} /\ t.err = Nil) =>
                    ch' = ch /\ drv'.flushed = Len(drv'.wire)
              /\ (t.pc = "idle" /\ t.err = Nil) => s.pc \in {"Flush.ret", "End.ret"}
              /\ (s.pc # "idle" /\ s.op = "End" /\ ma.werr = Nil) => ma.wmtx
              /\ (ma.wmtx /\ ~ma'.wmtx /\ t.err = Nil) => s.pc = "End.ret"
      ]_vars

\* End has enqueued its mark and flushed a buffering driver; it still holds
\* the mutex
C24_Witness ==
    /\ Running /\ wr["w1"].pc = "End.ret" /\ wr["w1"].err = Nil
    /\ ma.wmtx /\ drv.buffered
    /\ ch.q = <<0>> /\ drv.flushed = Len(drv.wire) /\ Len(drv.wire) > 0

(***************************************************************************)
(* C25: NoDelay.                                                           *)
(***************************************************************************)
\* the number of data bytes written before the last NoDelay call that
\* precedes the data byte of index i (0 without such a call)
LastReset(nd, i) ==
    LET ps == {0} \cup {p \in nd : p <= i} IN CHOOSE p \in ps : \A q \in ps : q <= p

\* the data part of a transaction of the data bytes data[i+1..] with NoDelay
\* called after nd bytes: a delay block before the byte of index i iff a
\* positive multiple of F data bytes were written since the last NoDelay
RECURSIVE FramedSince(_, _, _, _)
FramedSince(m, data, nd, i) ==
    IF i >= Len(data) THEN <<>>
    ELSE (IF i > LastReset(nd, i) /\ (i - LastReset(nd, i)) % FrameLen(m) = 0
          THEN Delays(m) ELSE <<>>)
         \o Window(m, data[i + 1]) \o FramedSince(m, data, nd, i + 1)

\* C25: NoDelay sets the frame counter to 0 and changes nothing else of the
\* master, the coordinator's queue or the driver; in a successful
\* transaction the data byte that follows a NoDelay call has no delay block
\* before it, also when the call came at a frame boundary, and the next
\* delay block stands after F further data bytes.
C25_NoDelayRestartsFrame ==
    [][/\ NoDelay("w1") => /\ ma' = [ma EXCEPT !.fn = 0]
                           /\ ch' = ch /\ drv' = drv /\ wr' = wr
       /\ obs'.done => DataPart(ma', obs'.words) = FramedSince(ma', obs'.data, obs'.nd, 0)]_vars

\* a successful transaction with Delay > 0 and F = 1: NoDelay was called at
\* the frame boundary after two data bytes and two more followed
C25_Witness ==
    /\ obs.done
    /\ ma.dlyn > 0
    /\ FrameLen(ma) = 1
    /\ obs.nd = {2}
    /\ Len(obs.data) = 4

(***************************************************************************)
(* C26: the frame counter.                                                 *)
(***************************************************************************)
\* the writer w starts the window of a data byte: it calls toread(16)
StartsWindow(w) ==
    /\ wr'[w] # wr[w]
    /\ wr'[w].pc = "toread"
    /\ wr'[w].n = 16

\* the writer w has written the whole delay block and goes on
EndsDelayBlock(w) ==
    /\ wr[w].pc = "wb.dly"
    /\ wr[w].err = Nil
    /\ wr[w].i = ma.dlyn
    /\ wr'[w].pc # "wb.dly"

\* C26: inside a transaction 0 <= fn <= FrameLen; fn changes only to 0 at
\* Begin and NoDelay, by one with a data byte when Delay > 0, and from
\* FrameLen to the first byte of the next frame exactly when a delay block
\* was emitted; with Delay = 0 no write changes it.
C26_FrameCounterInRange ==
    [][/\ ma.flen > 0 => (0 <= ma.fn /\ ma.fn <= ma.flen)
       /\ ma'.flen > 0 => (0 <= ma'.fn /\ ma'.fn <= ma'.flen)
       /\ ma'.fn # ma.fn =>
             \/ ma.flen < 0 /\ ma'.flen > 0 /\ ma'.fn = 0
             \/ wr' = wr /\ ma.flen > 0 /\ ma'.fn = 0
             \/ \E w \in Writers :
                   /\ StartsWindow(w) /\ ma.dlyn > 0
                   /\ \/ ma.fn < ma.flen /\ ma'.fn = ma.fn + 1 /\ ~EndsDelayBlock(w)
                      \/ ma.fn = ma.flen /\ ma'.fn = 1 /\ EndsDelayBlock(w)
       /\ \A w \in Writers :
             /\ (StartsWindow(w) /\ ma.dlyn > 0) =>
                   ma'.fn = IF EndsDelayBlock(w) THEN 1 ELSE ma.fn + 1
             /\ (StartsWindow(w) /\ ma.dlyn = 0) => ma'.fn = ma.fn
             /\ (wr[w].pc = "wb.dly" /\ wr[w].err = Nil /\ wr'[w].pc = "toread") =>
                   EndsDelayBlock(w)]_vars

\* the third data byte of a transaction with F = 2 and Delay 2 starts after
\* the delay block: fn is 1 again
C26_Witness ==
    /\ ma.flen = 2
    /\ ma.dlyn = 2
    /\ ma.fn = 1
    /\ wr["w1"].pc = "toread"
    /\ wr["w1"].n = 16
    /\ wr["w1"].rpc = "wb.data"
    /\ Len(obs.data) = 2

(***************************************************************************)
(* C27: Unlock of the write mutex.                                         *)
(***************************************************************************)
UnlockOfUnlocked == "fatal error: sync: unlock of unlocked mutex"

\* the writer v has just locked the mutex in Begin and takes no part in the
\* step
JustLocked(v) == wr[v].pc = "Begin.chk" /\ wr'[v] = wr[v]

\* C27: no step runs Unlock on a mutex that is not locked, and no step
\* unlocks the mutex that another writer's Begin has just locked.
C27_UnlockOnlyByHolder ==
    [][/\ crash' # UnlockOfUnlocked
       /\ \A v \in Writers : (JustLocked(v) /\ ma.wmtx) => ma'.wmtx]_vars

(***************************************************************************)
(* C28: the 0 directive.                                                   *)
(***************************************************************************)
\* the writer w enqueues a directive in this step
EnqueuesOne(w) == wr'[w] # wr[w] /\ Len(ch'.q) = Len(ch.q) + 1

\* C28: a 0 directive is enqueued only by the toread(0) of Flush and of End,
\* and the overhead directive of Begin and of End is strictly negative.
C28_ZeroIsFlushMark ==
    [][\A w \in Writers :
          EnqueuesOne(w) =>
             LET d == ch'.q[Len(ch'.q)]
             IN  /\ d = 0 => wr[w].rpc \in {"Flush.drv", "End.flush"}
                 /\ wr[w].rpc \in {"Begin.pre", "End.idle"} => d < 0]_vars

(***************************************************************************)
(* C29: the coordinator after the latch.                                   *)
(***************************************************************************)
\* the writer w is in toread, before or at ma.tord <- int8(n)
AtEnqueue(w) == wr[w].pc \in {"toread", "send"}

\* C29: no writer is at the enqueue with the coordinator closed or nil, no
\* send or close ever panics, and a call entered with an error latched never
\* comes to the enqueue.
C29_NoSendAfterLatch ==
    /\ crash \notin {"panic: send on closed channel", "panic: close of nil channel"}
    /\ \A w \in Writers :
          AtEnqueue(w) => (~ch.closed /\ ma.tord # "nil" /\ wr[w].lat = Nil)

(***************************************************************************)
(* C30: the flag dr.                                                       *)
(***************************************************************************)
\* the reader pops a directive in this step
Pops == Len(ch'.q) < Len(ch.q)

\* the reader starts a call of length n in this step
ReadCalled == rd.pc = "idle" /\ rd' # rd

InitRange ==
    InitWith(Masters \cup {SetUpOf(m, su) : m \in Masters, su \in SetUps}, SeqCap,
             {MakeDriver(FALSE, 0)}, Limit(1, MaxCalls, MaxSet), TRUE)

NextRange ==
    \/ \E w \in {"w1"} : WriterCalls(w) \/ WriterSteps(w)
    \/ Setters

SpecRange == InitRange /\ [][NextRange]_vars

\* the directives of a Master set up through SetPrePost and Configure
DirectiveRange == {16, 0} \cup (-17..-1)

\* C31: every directive that is enqueued or about to be enqueued is 16, 0 or
\* in -17..-1, and neither the range panic of toread nor the panic of
\* discard on a positive directive other than 16 ends the program.
C31_DirectivesInRange ==
    /\ \A j \in 1..Len(ch.q) : ch.q[j] \in DirectiveRange
    /\ \A w \in Writers : wr[w].pc \in {"toread", "send"} => wr[w].n \in DirectiveRange
    /\ crash \notin {"panic: n>127 || n<-128", "panic: m>0 && m!=len(bits)"}

\* a transaction with 16 pre bytes in a CPHA1 mode: Begin enqueued -17, a
\* data byte and the mark of End followed
C31_Witness ==
    /\ Len(ch.q) >= 4
    /\ ch.q[1] = -17
    /\ ch.q[2] = 16
    /\ ch.q[Len(ch.q)] = 0
    /\ wr["w1"].pc = "idle"
    /\ crash = ""
====
